---- MODULE Spec2Model ----
(***************************************************************************)
(* Model of test_retry_server.py: a socketserver.TCPServer on port 8999    *)
(* whose handler class RetryTestHandler answers every POST with one of     *)
(* four randomly drawn scenarios.  The server process, its single serving  *)
(* loop, the handler's statements, the sockets and the calling clients     *)
(* (with their own timeouts) are modelled; time is counted in seconds.     *)
(***************************************************************************)
EXTENDS Integers, Sequences, FiniteSets

\* ------------------------------------------------------------------ bounds

\* number of client connections (one HTTP/1.0 request each)
NumConns == 2

\* ------------------------------------------------------ program constants

\* time.sleep(15)
SleepSeconds == 15

\* random.choice([...]) argument, in source order
Scenarios == <<"timeout", "server_error", "success", "client_error">>

\* ------------------------------------------------------------ environment

Conns == 1..NumConns
NoConn == 0

\* the callers: each posts (or probes) with its own timeout in seconds, one
\* shorter and one longer than the delay
Callers ==
    { [method |-> "POST", path |-> "/v1/completions", body |-> "prompt", timeout |-> 5],
      [method |-> "POST", path |-> "/v1/chat/completions", body |-> "messages",
       timeout |-> 20],
      [method |-> "GET", path |-> "/v1/completions", body |-> "", timeout |-> 5] }
NoReq == [method |-> "", path |-> "", body |-> ""]

\* ---------------------------------------------------------------- helpers

P(x) == <<"punct", x>>
S(x) == <<"str", x>>

\* a flat JSON object {"k": "v", ...} as a token sequence
IsJsonObject(t) ==
    /\ Len(t) >= 2
    /\ t[1] = P("{")
    /\ t[Len(t)] = P("}")
    /\ \/ Len(t) = 2
       \/ /\ (Len(t) - 1) % 4 = 0
          /\ \A i \in 2..(Len(t) - 1) :
                CASE (i - 2) % 4 = 0 -> t[i][1] = "str"
                  [] (i - 2) % 4 = 1 -> t[i] = P(":")
                  [] (i - 2) % 4 = 2 -> t[i][1] = "str"
                  [] OTHER -> t[i] = P(",")

\* the keys of a JSON object: the strings that directly precede a colon
JsonKeys(t) ==
    {t[i][2] : i \in {j \in 1..(Len(t) - 1) : t[j][1] = "str" /\ t[j + 1] = P(":")}}

\* ------------------------------------------------- random.choice, line 10

RandomChoiceSkipFirst(seq) == {seq[i] : i \in 2..Len(seq)}

\* the values random.choice(seq) can return
RandomChoice(seq) == {seq[i] : i \in 1..Len(seq)}

\* ------------------------------------------------- the if/elif/else chain

BranchMistyped(s) ==
    IF s = "timeout" THEN "timeout"
    ELSE IF s = "server_error" THEN "server_error"
    ELSE IF s = "client-error" THEN "client_error"
    ELSE "success"

\* which branch of do_POST runs for a drawn scenario
Branch(s) ==
    IF s = "timeout" THEN "timeout"
    ELSE IF s = "server_error" THEN "server_error"
    ELSE IF s = "client_error" THEN "client_error"
    ELSE "success"

StatusFor503(b) ==
    CASE b = "timeout" -> 200
      [] b = "server_error" -> 503
      [] b = "client_error" -> 400
      [] OTHER -> 200

\* the argument of send_response in each branch
StatusFor(b) ==
    CASE b = "timeout" -> 200
      [] b = "server_error" -> 500
      [] b = "client_error" -> 400
      [] OTHER -> 200

BodyForSwapped(b) ==
    CASE b = "timeout" -> <<P("{"), S("delayed"), P(":"), S("response"), P("}")>>
      [] b = "server_error" ->
            <<P("{"), S("error"), P(":"), S("Internal server error"), P("}")>>
      [] b = "client_error" ->
            <<P("{"), S("message"), P(":"), S("Bad request"), P("}")>>
      [] OTHER -> <<P("{"), S("message"), P(":"), S("Success after retries!"), P("}")>>

\* the bytes given to wfile.write in each branch
BodyFor(b) ==
    CASE b = "timeout" -> <<P("{"), S("delayed"), P(":"), S("response"), P("}")>>
      [] b = "server_error" ->
            <<P("{"), S("error"), P(":"), S("Internal server error"), P("}")>>
      [] b = "client_error" ->
            <<P("{"), S("error"), P(":"), S("Bad request"), P("}")>>
      [] OTHER -> <<P("{"), S("message"), P(":"), S("Success after retries!"), P("}")>>

NextAfterStatusNoEnd(b) == "write"

\* the statement that follows send_response in each branch
NextAfterStatus(b) ==
    IF b \in {"timeout", "server_error", "client_error"}
    THEN "end_headers"
    ELSE "send_header"

\* the send_header calls of each branch (only the success branch has one)
HeadersFor(b) ==
    IF b \in {"timeout", "server_error", "client_error"}
    THEN <<>>
    ELSE << <<"header", "Content-Type", "application/json">> >>

\* ------------------------------------------------------------- log lines

ScenarioLineNoName(s) ==
    <<"Test", "server", "handling", "request", "with", "scenario:", "{scenario}">>

\* print(f"Test server handling request with scenario: {scenario}")
ScenarioLine(s) ==
    <<"Test", "server", "handling", "request", "with", "scenario:", s>>

\* the print that opens each branch
BranchLine(b) ==
    CASE b = "timeout" -> <<"Simulating", "timeout", "(sleeping", "15", "seconds)...">>
      [] b = "server_error" -> <<"Simulating", "server", "error", "(500)">>
      [] b = "client_error" ->
            <<"Simulating", "client", "error", "(400)", "-", "should", "NOT", "retry">>
      [] OTHER -> <<"Simulating", "success", "(200)">>

StartupLines ==
    << [req |-> NoConn,
        line |-> <<"Test", "retry", "server", "running", "on", "port", "8999">>],
       [req |-> NoConn,
        line |-> <<"Point", "your", "model", "API", "endpoint", "to:",
                   "http://localhost:8999">>] >>

\* ------------------------------------------------------------ time.sleep

SleepDoneEarly(e) == TRUE

\* time.sleep(15) returns once 15 seconds have passed
SleepDone(e) == e >= SleepSeconds

\* ------------------------------------------------------- startup failure

AfterBindRetry == "start"

\* TCPServer(...) raising OSError is not caught: the process ends
AfterBindFailure == "exited"

\* -------------------------------------------------------------- sockets

\* sendall on a socket: fine while the peer is open; once the peer has closed
\* it either is accepted locally or raises BrokenPipe/ConnectionReset
WriteOutcomes(peerOpen) == IF peerOpen THEN {"ok"} ELSE {"ok", "raise"}

VARIABLES
    main,          \* position of the __main__ block
    bindAttempts,  \* times TCPServer(("", PORT), ...) was constructed
    bindFailed,    \* a construction raised
    backlog,       \* connections queued on the listening socket
    cur,           \* the connection the serving loop is handling
    pc,            \* position of the handler
    scenario,      \* do_POST's local
    hdrbuf,        \* BaseHTTPRequestHandler._headers_buffer
    elapsed,       \* seconds spent in time.sleep so far
    req,           \* what each connection's client sent
    ctimeout,      \* each client's timeout
    ctimer,        \* seconds left before the client gives up
    cstate,        \* each client's position
    recv,          \* what each client has received
    sent,          \* what the server's sendall calls put on each connection
    stdout,        \* print output
    stderr,        \* log_request / handle_error output
    scen,          \* the scenario drawn for each connection's request
    draws,         \* random.choice calls per connection
    ended,         \* how handling of each connection ended
    sleptFor,      \* seconds the handler slept for each connection
    arrivedInDelay,\* the connection that was in the delay when this one was made
    closedInDelay  \* the client closed while its request was in the delay

vars == <<main, bindAttempts, bindFailed, backlog, cur, pc, scenario, hdrbuf,
          elapsed, req, ctimeout, ctimer, cstate, recv, sent, stdout, stderr,
          scen, draws, ended, sleptFor, arrivedInDelay, closedInDelay>>

serverVars == <<main, bindAttempts, bindFailed>>
handlerVars == <<cur, pc, scenario, hdrbuf, elapsed>>
clientVars == <<req, ctimeout, ctimer, cstate, recv>>
ghostVars == <<scen, draws, ended, sleptFor, arrivedInDelay, closedInDelay>>

Init ==
    /\ main = "start"
    /\ bindAttempts = 0
    /\ bindFailed = FALSE
    /\ backlog = <<>>
    /\ cur = NoConn
    /\ pc = "select"
    /\ scenario = ""
    /\ hdrbuf = <<>>
    /\ elapsed = 0
    /\ req = [c \in Conns |-> NoReq]
    /\ ctimeout = [c \in Conns |-> 0]
    /\ ctimer = [c \in Conns |-> 0]
    /\ cstate = [c \in Conns |-> "idle"]
    /\ recv = [c \in Conns |-> <<>>]
    /\ sent = [c \in Conns |-> <<>>]
    /\ stdout = <<>>
    /\ stderr = <<>>
    /\ scen = [c \in Conns |-> ""]
    /\ draws = [c \in Conns |-> 0]
    /\ ended = [c \in Conns |-> "no"]
    /\ sleptFor = [c \in Conns |-> 0]
    /\ arrivedInDelay = [c \in Conns |-> NoConn]
    /\ closedInDelay = [c \in Conns |-> FALSE]

\* ------------------------------------------------------------- __main__

\* socketserver.TCPServer(("", PORT), RetryTestHandler) binds and listens,
\* then the two startup lines are printed
BindOK ==
    /\ main = "start"
    /\ bindAttempts' = bindAttempts + 1
    /\ main' = "bound"
    /\ stdout' = stdout \o StartupLines
    /\ UNCHANGED <<bindFailed, backlog, handlerVars, clientVars, sent, stderr, ghostVars>>

\* the bind raises (port in use, no privilege)
BindFail ==
    /\ main = "start"
    /\ bindAttempts' = bindAttempts + 1
    /\ bindFailed' = TRUE
    /\ main' = AfterBindFailure
    /\ stderr' = Append(stderr, [req |-> NoConn, line |-> <<"Traceback", "OSError">>])
    /\ UNCHANGED <<backlog, handlerVars, clientVars, sent, stdout, ghostVars>>

\* httpd.serve_forever()
ServeForever ==
    /\ main = "bound"
    /\ main' = "serving"
    /\ UNCHANGED <<bindAttempts, bindFailed, backlog, handlerVars, clientVars, sent,
                   stdout, stderr, ghostVars>>

\* ------------------------------------------------------------- the client

\* a client connects and posts; connections are numbered in arrival order
ClientSend(c, k) ==
    /\ cstate[c] = "idle"
    /\ \A d \in Conns : d < c => cstate[d] # "idle"
    /\ req' = [req EXCEPT ![c] = [method |-> k.method, path |-> k.path, body |-> k.body]]
    /\ ctimeout' = [ctimeout EXCEPT ![c] = k.timeout]
    /\ IF main \in {"bound", "serving"}
       THEN /\ backlog' = Append(backlog, c)
            /\ cstate' = [cstate EXCEPT ![c] = "waiting"]
            /\ ctimer' = [ctimer EXCEPT ![c] = k.timeout]
            /\ arrivedInDelay' = [arrivedInDelay EXCEPT
                                     ![c] = IF pc = "sleep" THEN cur ELSE NoConn]
       ELSE /\ cstate' = [cstate EXCEPT ![c] = "refused"]
            /\ UNCHANGED <<backlog, ctimer, arrivedInDelay>>
    /\ UNCHANGED <<serverVars, handlerVars, recv, sent, stdout, stderr,
                   scen, draws, ended, sleptFor, closedInDelay>>

\* the client's timeout fires: it closes its connection
ClientAbort(c) ==
    /\ cstate[c] = "waiting"
    /\ ctimer[c] = 0
    /\ cstate' = [cstate EXCEPT ![c] = "aborted"]
    /\ closedInDelay' = [closedInDelay EXCEPT ![c] = (cur = c /\ pc = "sleep")]
    /\ UNCHANGED <<serverVars, backlog, handlerVars, req, ctimeout, ctimer, recv, sent,
                   stdout, stderr, scen, draws, ended, sleptFor, arrivedInDelay>>

\* one second passes: only while the handler is inside time.sleep (every other
\* statement takes no measurable time)
Tick ==
    /\ main = "serving"
    /\ pc = "sleep"
    /\ ~SleepDone(elapsed)
    /\ \A c \in Conns : cstate[c] = "waiting" => ctimer[c] > 0
    /\ elapsed' = elapsed + 1
    /\ ctimer' = [c \in Conns |->
                    IF cstate[c] = "waiting" THEN ctimer[c] - 1 ELSE ctimer[c]]
    /\ UNCHANGED <<serverVars, backlog, cur, pc, scenario, hdrbuf, req, ctimeout,
                   cstate, recv, sent, stdout, stderr, ghostVars>>

\* ------------------------------------------- socketserver's serving loop

\* serve_forever takes the next queued connection and handles it to the end
\* before it looks at the listening socket again (TCPServer has no threads);
\* BaseHTTPRequestHandler parses the request line and looks up do_<METHOD>
Accept ==
    /\ main = "serving"
    /\ pc = "select"
    /\ backlog # <<>>
    /\ cur' = Head(backlog)
    /\ backlog' = Tail(backlog)
    /\ scenario' = ""
    /\ hdrbuf' = <<>>
    /\ elapsed' = 0
    /\ pc' = IF req[Head(backlog)].method = "POST" THEN "draw" ELSE "unsupported"
    /\ UNCHANGED <<serverVars, clientVars, sent, stdout, stderr, ghostVars>>

\* an exception leaves the handler: handle_error prints a traceback,
\* shutdown_request closes the connection and the loop goes on
Raised ==
    /\ ended' = [ended EXCEPT ![cur] = "raised"]
    /\ stderr' = Append(stderr, [req |-> cur, kind |-> "traceback", code |-> 0])
    /\ cur' = NoConn
    /\ pc' = "select"
    /\ scenario' = ""
    /\ hdrbuf' = <<>>
    /\ UNCHANGED <<elapsed, recv, sent>>

\* one sendall of `chunk` on the handled connection, then on to `nextpc`
SockWrite(chunk, nextpc) ==
    \E o \in WriteOutcomes(cstate[cur] = "waiting") :
        IF o = "ok"
        THEN /\ sent' = [sent EXCEPT ![cur] = sent[cur] \o chunk]
             /\ recv' = IF cstate[cur] = "waiting"
                        THEN [recv EXCEPT ![cur] = recv[cur] \o chunk]
                        ELSE recv
             /\ pc' = nextpc
             /\ hdrbuf' = <<>>
             /\ UNCHANGED <<cur, scenario, elapsed, stderr, ended>>
        ELSE Raised

\* a method without a do_ method: send_error(501)
Unsupported ==
    /\ pc = "unsupported"
    /\ SockWrite(<< <<"status", 501>>, <<"end">>, <<"body", <<S("Unsupported method")>> >> >>,
                 "finish")
    /\ UNCHANGED <<serverVars, backlog, req, ctimeout, ctimer, cstate, stdout,
                   scen, draws, sleptFor, arrivedInDelay, closedInDelay>>

\* ------------------------------------------------ RetryTestHandler.do_POST

\* scenario = random.choice([...])
Draw ==
    /\ pc = "draw"
    /\ \E s \in RandomChoice(Scenarios) :
          /\ scenario' = s
          /\ scen' = [scen EXCEPT ![cur] = s]
    /\ draws' = [draws EXCEPT ![cur] = draws[cur] + 1]
    /\ pc' = "log"
    /\ UNCHANGED <<serverVars, backlog, cur, hdrbuf, elapsed, clientVars, sent, stdout,
                   stderr, ended, sleptFor, arrivedInDelay, closedInDelay>>

\* the draw with its result fixed
DrawTo(s) == Draw /\ scenario' = s

\* print(f"Test server handling request with scenario: {scenario}")
LogScenario ==
    /\ pc = "log"
    /\ stdout' = Append(stdout, [req |-> cur, line |-> ScenarioLine(scenario)])
    /\ pc' = "dispatch"
    /\ UNCHANGED <<serverVars, backlog, cur, scenario, hdrbuf, elapsed, clientVars, sent,
                   stderr, ghostVars>>

\* the if/elif/else test and the print that opens the branch taken
Dispatch ==
    /\ pc = "dispatch"
    /\ stdout' = Append(stdout, [req |-> cur, line |-> BranchLine(Branch(scenario))])
    /\ pc' = IF Branch(scenario) = "timeout" THEN "sleep" ELSE "send_response"
    /\ UNCHANGED <<serverVars, backlog, cur, scenario, hdrbuf, elapsed, clientVars, sent,
                   stderr, ghostVars>>

\* time.sleep(15) returns
Wake ==
    /\ pc = "sleep"
    /\ SleepDone(elapsed)
    /\ sleptFor' = [sleptFor EXCEPT ![cur] = elapsed]
    /\ pc' = "send_response"
    /\ UNCHANGED <<serverVars, backlog, cur, scenario, hdrbuf, elapsed, clientVars, sent,
                   stdout, stderr, scen, draws, ended, arrivedInDelay, closedInDelay>>

\* self.send_response(code): log_request, then the status line and the
\* Server and Date headers go into the headers buffer
SendResponse ==
    /\ pc = "send_response"
    /\ stderr' = Append(stderr, [req |-> cur, kind |-> "log_request",
                                 code |-> StatusFor(Branch(scenario))])
    /\ hdrbuf' = hdrbuf \o << <<"status", StatusFor(Branch(scenario))>>,
                              <<"header", "Server", "BaseHTTP">>,
                              <<"header", "Date", "now">> >>
    /\ pc' = NextAfterStatus(Branch(scenario))
    /\ UNCHANGED <<serverVars, backlog, cur, scenario, elapsed, clientVars, sent,
                   stdout, ghostVars>>

\* self.send_header('Content-Type', 'application/json')
SendHeader ==
    /\ pc = "send_header"
    /\ hdrbuf' = hdrbuf \o HeadersFor(Branch(scenario))
    /\ pc' = "end_headers"
    /\ UNCHANGED <<serverVars, backlog, cur, scenario, elapsed, clientVars, sent,
                   stdout, stderr, ghostVars>>

\* self.end_headers(): the blank line is added and the buffer is written out
EndHeaders ==
    /\ pc = "end_headers"
    /\ SockWrite(hdrbuf \o << <<"end">> >>, "write")
    /\ UNCHANGED <<serverVars, backlog, req, ctimeout, ctimer, cstate, stdout,
                   scen, draws, sleptFor, arrivedInDelay, closedInDelay>>

\* self.wfile.write(b'{...}')
WriteBody ==
    /\ pc = "write"
    /\ SockWrite(<< <<"body", BodyFor(Branch(scenario))>> >>, "finish")
    /\ UNCHANGED <<serverVars, backlog, req, ctimeout, ctimer, cstate, stdout,
                   scen, draws, sleptFor, arrivedInDelay, closedInDelay>>

\* the handler returns: shutdown_request closes the connection (HTTP/1.0, one
\* request per connection) and a client still waiting has its response
Finish ==
    /\ pc = "finish"
    /\ ended' = [ended EXCEPT ![cur] = "ok"]
    /\ cstate' = [cstate EXCEPT ![cur] = IF @ = "waiting" THEN "done" ELSE @]
    /\ ctimer' = [ctimer EXCEPT ![cur] = 0]
    /\ cur' = NoConn
    /\ pc' = "select"
    /\ scenario' = ""
    /\ hdrbuf' = <<>>
    /\ UNCHANGED <<serverVars, backlog, elapsed, req, ctimeout, recv, sent,
                   stdout, stderr, scen, draws, sleptFor, arrivedInDelay, closedInDelay>>

\* ---------------------------------------------------------- specification

Handler ==
    \/ Accept
    \/ Unsupported
    \/ Draw
    \/ LogScenario
    \/ Dispatch
    \/ Wake
    \/ SendResponse
    \/ SendHeader
    \/ EndHeaders
    \/ WriteBody
    \/ Finish

Next ==
    \/ BindOK
    \/ BindFail
    \/ ServeForever
    \/ \E c \in Conns, k \in Callers : ClientSend(c, k)
    \/ \E c \in Conns : ClientAbort(c)
    \/ Tick
    \/ Handler

Spec == Init /\ [][Next]_vars

\* the server's thread is scheduled, the clients' timers fire and time goes
\* on: whenever something can happen, something does
FairSpec == Spec /\ WF_vars(Next)

\* ------------------------------------------------------------ observers

IsPost(c) == req[c].method = "POST"

\* the positions of the items of one kind in what was written
ItemsOf(seq, kind) == {j \in 1..Len(seq) : seq[j][1] = kind}

Statuses(seq) == {seq[j][2] : j \in ItemsOf(seq, "status")}

\* what the handler has produced for a connection, buffered or on the socket
Written(c) == sent[c] \o (IF cur = c THEN hdrbuf ELSE <<>>)

\* status line, headers, end of headers, body: each once and in this order
Complete(seq) ==
    /\ Len(seq) >= 3
    /\ seq[1][1] = "status"
    /\ seq[Len(seq)][1] = "body"
    /\ seq[Len(seq) - 1][1] = "end"
    /\ \A i \in 2..(Len(seq) - 2) : seq[i][1] = "header"

StatusOf(seq) == seq[1][2]
BodyOf(seq) == seq[Len(seq)][2]

\* the handler has acted on the scenario: the delay has begun or something
\* was produced for the connection
Acted(c) ==
    \/ Written(c) # <<>>
    \/ cur = c /\ pc = "sleep"
    \/ ended[c] # "no"

LinesOf(c) == {j \in 1..Len(stdout) : stdout[j].req = c}

\* a printed line contains the word s
Names(line, s) == \E i \in 1..Len(line) : line[i] = s

NamingLines(c) == {j \in LinesOf(c) : Names(stdout[j].line, scen[c])}

IsScenarioLine(line) ==
    /\ Len(line) = 7
    /\ SubSeq(line, 1, 6) = <<"Test", "server", "handling", "request", "with", "scenario:">>

ScenarioLinesOf(c) == {j \in LinesOf(c) : IsScenarioLine(stdout[j].line)}

LoggedScenarios(c) == {stdout[j].line[7] : j \in ScenarioLinesOf(c)}

\* ------------------------------------------------------------------ claims

\* C1: while one POST is inside the timeout delay, a POST arriving on another
\* connection is accepted and receives its response before the delayed
\* request's delay has elapsed.  Stated on the states where that delay is
\* over: every connection made during it has been answered by then.
C1_ServedDuringDelay ==
    \A b \in Conns :
        (/\ IsPost(b)
         /\ arrivedInDelay[b] # NoConn
         /\ ~(cur = arrivedInDelay[b] /\ pc = "sleep"))
        => (ended[b] = "ok" /\ Complete(sent[b]))

\* C2: every status code produced for a POST request, whatever was handled
\* before it, is 200, 400 or 500.
C2_StatusCodes ==
    \A c \in Conns : IsPost(c) => Statuses(Written(c)) \subseteq {200, 400, 500}

C2_Witness ==
    /\ ended[1] # "no"
    /\ IsPost(2)
    /\ Statuses(sent[2]) = {500}

\* C3: status and body of a response are fixed by the scenario drawn: timeout
\* gives 200 and the key "delayed", server_error 500 and "error", client_error
\* 400 and "error", success 200 and "message"; a 400 or 500 carries "error", a
\* 200 carries "message" exactly when no delay was applied and "delayed"
\* exactly when one was.
C3_ScenarioDeterminesResponse ==
    \A c \in Conns :
        (IsPost(c) /\ Complete(sent[c])) =>
            /\ IsJsonObject(BodyOf(sent[c]))
            /\ scen[c] = "timeout" =>
                  StatusOf(sent[c]) = 200 /\ JsonKeys(BodyOf(sent[c])) = {"delayed"}
            /\ scen[c] = "server_error" =>
                  StatusOf(sent[c]) = 500 /\ JsonKeys(BodyOf(sent[c])) = {"error"}
            /\ scen[c] = "client_error" =>
                  StatusOf(sent[c]) = 400 /\ JsonKeys(BodyOf(sent[c])) = {"error"}
            /\ scen[c] = "success" =>
                  StatusOf(sent[c]) = 200 /\ JsonKeys(BodyOf(sent[c])) = {"message"}
            /\ StatusOf(sent[c]) \in {400, 500} => "error" \in JsonKeys(BodyOf(sent[c]))
            /\ StatusOf(sent[c]) = 200 =>
                  /\ "message" \in JsonKeys(BodyOf(sent[c])) <=> sleptFor[c] = 0
                  /\ "delayed" \in JsonKeys(BodyOf(sent[c])) <=> sleptFor[c] > 0

C3_Witness ==
    /\ Complete(sent[1]) /\ scen[1] = "timeout" /\ cstate[1] = "done"
    /\ Complete(sent[2]) /\ scen[2] = "client_error" /\ cstate[2] = "done"

C5_ClosedInDelayNothingWritten ==
    \A c \in Conns : closedInDelay[c] => (sent[c] = <<>> /\ main = "serving")

\* C6: the timeout scenario's response is produced only after the full 15
\* seconds of delay; a client whose timeout is shorter than the delay has
\* aborted by then and never receives any of that response.
C6_ResponseOnlyAfterDelay ==
    \A c \in Conns :
        (IsPost(c) /\ scen[c] = "timeout") =>
            /\ Written(c) # <<>> => sleptFor[c] >= 15
            /\ ctimeout[c] < 15 =>
                  /\ recv[c] = <<>>
                  /\ cstate[c] # "done"
                  /\ Written(c) # <<>> => cstate[c] = "aborted"

C6_Witness ==
    \E c \in Conns :
        /\ scen[c] = "timeout"
        /\ ctimeout[c] = 5
        /\ ended[c] = "ok"
        /\ cstate[c] = "aborted"
        /\ recv[c] = <<>>

\* C7: whatever the request's path and body and whatever was drawn before,
\* each of the four scenarios can be drawn for the request at hand, and the
\* handler starts from nothing an earlier request left behind.
C7_EveryScenarioPossible ==
    pc = "draw" =>
        /\ \A s \in {"timeout", "server_error", "success", "client_error"} :
              ENABLED DrawTo(s)
        /\ scenario = ""
        /\ hdrbuf = <<>>
        /\ elapsed = 0

C7_Witness ==
    /\ IsPost(1)
    /\ req[2] = req[1]
    /\ ended[1] # "no"
    /\ scen[1] = "timeout"
    /\ scen[2] = "client_error"

\* C8 as written: the line naming the scenario is printed before any action of
\* the scenario, and exactly one printed line of the request names it.
C8_ExactlyOneNamingLine ==
    \A c \in Conns :
        IsPost(c) =>
            /\ Acted(c) => NamingLines(c) # {}
            /\ Cardinality(NamingLines(c)) <= 1

\* C8 amended: the line "Test server handling request with scenario: <name>"
\* is printed once per request, first among the request's lines and before
\* any action of the scenario; a second line, opening the branch, follows it,
\* and for timeout and success that line holds the scenario's name too.
C8_ScenarioLineFirst ==
    \A c \in Conns :
        IsPost(c) =>
            /\ Cardinality(ScenarioLinesOf(c)) <= 1
            /\ Cardinality(LinesOf(c)) <= 2
            /\ LinesOf(c) # {} =>
                  \E j \in ScenarioLinesOf(c) :
                      /\ stdout[j].line[7] = scen[c]
                      /\ \A i \in LinesOf(c) : j <= i
            /\ Acted(c) =>
                  /\ Cardinality(ScenarioLinesOf(c)) = 1
                  /\ Cardinality(LinesOf(c)) = 2
                  /\ Cardinality(NamingLines(c)) =
                        IF scen[c] \in {"timeout", "success"} THEN 2 ELSE 1

C8_Witness ==
    \E c \in Conns :
        /\ scen[c] = "timeout"
        /\ cur = c
        /\ pc = "sleep"
        /\ elapsed = 0
        /\ Cardinality(NamingLines(c)) = 2

\* C9: a failed bind ends the process: the bind is tried once, the serving
\* loop is never entered and no request is ever handled.
C9_BindFailureFatal ==
    /\ bindAttempts <= 1
    /\ bindFailed =>
          /\ main = "exited"
          /\ backlog = <<>>
          /\ cur = NoConn
          /\ stdout = <<>>
          /\ \A c \in Conns : ended[c] = "no" /\ sent[c] = <<>> /\ draws[c] = 0

C9_Witness ==
    /\ bindFailed
    /\ main = "exited"
    /\ \A c \in Conns : cstate[c] = "refused"

\* C10: a request's scenario is drawn once, at most one status line and one
\* body are produced for it, and they are those of the scenario the log names.
C10_OneResponseOfLoggedScenario ==
    \A c \in Conns :
        IsPost(c) =>
            /\ draws[c] <= 1
            /\ Cardinality(ItemsOf(Written(c), "status")) <= 1
            /\ Cardinality(ItemsOf(Written(c), "body")) <= 1
            /\ Written(c) # <<>> =>
                  /\ draws[c] = 1
                  /\ LoggedScenarios(c) = {scen[c]}
                  /\ Statuses(Written(c)) =
                        {CASE scen[c] = "server_error" -> 500
                           [] scen[c] = "client_error" -> 400
                           [] OTHER -> 200}
                  /\ \A j \in ItemsOf(Written(c), "body") :
                        JsonKeys(Written(c)[j][2]) =
                            {CASE scen[c] = "timeout" -> "delayed"
                               [] scen[c] = "success" -> "message"
                               [] OTHER -> "error"}

C10_Witness ==
    \E c \in Conns :
        /\ ended[c] = "ok"
        /\ draws[c] = 1
        /\ LoggedScenarios(c) = {"client_error"}
        /\ Statuses(sent[c]) = {400}
        /\ Cardinality(ItemsOf(sent[c], "body")) = 1

====
